---- MODULE Spec2Model ----
(***************************************************************************)
(* State-machine model of src/src/index.ts.                                *)
(*                                                                         *)
(* Pipeline A (capture and batch forwarder): the per-isolate state batch,  *)
(* flushScheduled, backoffUntil, backoffMs; the operations logAndBatch,    *)
(* scheduleFlush and flush.  A JavaScript isolate runs one callback at a   *)
(* time, so every action below is the code that runs between two           *)
(* suspension points (await sleep, await fetch).                           *)
(*                                                                         *)
(* Pipeline B (sampling and resilient forwarder): the retry loop of the    *)
(* second fetch handler.                                                   *)
(***************************************************************************)
EXTENDS Integers, Sequences, FiniteSets, TLC

\* ------------------------------------------------------------------ bounds
\* Number of request/response pairs captured in one behaviour.
MaxRec == 4
\* Last instant of the clock (Date.now()) explored.
MaxNow == 3
\* Math.random() is drawn from { k / RandDen : k \in 0 .. RandDen-1 }.
RandDen == 2
\* Longest text of an environment override.
MaxLen == 3

\* ------------------------------------------------------- program constants
\* Math.floor(Math.random() * 500)
JitterSpan == 500
\* const RETRIES = 2
RETRIES == 2
\* new Response(null, { status: 524 })
TimeoutStatus == 524

VARIABLES
  conf,            \* cfg(env): the resolved configuration of the isolate
  batch,           \* let batch: any[]
  flushScheduled,  \* let flushScheduled
  backoffUntil,    \* let backoffUntil (epoch millis)
  backoffMs,       \* let backoffMs
  now,             \* Date.now()
  timers,          \* due times of the sleep(batchMs) timers not yet fired
  inflight,        \* sink POSTs awaiting their response (await fetch in flush)
  delivered,       \* records whose POST was classified a success
  nextId,          \* capture number of the next record
  burstFrom,       \* nextId when Pipeline A was last idle; 0 once a POST was made
  ev,              \* what the last step did
  bpc,             \* Pipeline B: position of the inbound call
  attempt,         \* Pipeline B: let attempt
  rate,            \* Pipeline B: Number(env.SAMPLE_RATE ?? "1.0"), in 1/RandDen
  upstream,        \* Pipeline B: outcome of every upstream call made, in order
  response,        \* Pipeline B: status returned to the caller (0: none yet)
  envRaw,          \* env: the raw override of every numeric setting
  resolved         \* the settings resolved from envRaw so far: <<key, number>>

varsA == <<conf, batch, flushScheduled, backoffUntil, backoffMs, now, timers,
           inflight, delivered, nextId, burstFrom, ev>>
varsB == <<bpc, attempt, rate, upstream, response>>
varsC == <<envRaw, resolved>>
vars == <<conf, batch, flushScheduled, backoffUntil, backoffMs, now, timers,
          inflight, delivered, nextId, burstFrom, ev,
          bpc, attempt, rate, upstream, response, envRaw, resolved>>

Min(a, b) == IF a <= b THEN a ELSE b

\* ================================================================ Pipeline A

\* The overrides an isolate may run with (env is fixed for an isolate's life).
\* backoffBase may exceed backoffMax: toNumber accepts any integer.
Configs ==
  {[batchMs |-> 1, batchMax |-> m, backoffBase |-> b[1], backoffMax |-> b[2]] :
     m \in {2, 3}, b \in {<<1, 4>>, <<3, 2>>}}

\* The configuration Pipeline A is left in while Pipeline B is explored.
BaseConfig ==
  [batchMs |-> 1, batchMax |-> 2, backoffBase |-> 1, backoffMax |-> 4]

\* HTTP statuses the sink answers with, and a rejected fetch promise.
Statuses == {200, 400, 403, 429, 500, 503}
Outcomes ==
  [kind : {"resp"}, status : Statuses] \cup {[kind |-> "throw", status |-> 0]}

\* buildLogObject: one record per request/response pair.  A record matters to
\* the batching only as a batch member; n is its capture number.
BuildLogObject(n) == [EdgeStartTimestamp |-> n]

\* JSON.stringify(e): one compact JSON text per record.
JsonStringify(e) == <<"{EdgeStartTimestamp:", e.EdgeStartTimestamp, "}">>

\* toSend.map((e) => JSON.stringify(e)).join("\n"): the body, line by line.
NdjsonBody(toSend) == [i \in 1 .. Len(toSend) |-> JsonStringify(toSend[i])]

\* if (batch.length >= batchMax)
SizeReachedEq(len, max) == len = max
SizeReachedEarly(len, max) == len + 1 >= max
SizeReached(len, max) == len >= max

\* if (!flushScheduled)
ShouldArmAlways(scheduled) == TRUE
ShouldArm(scheduled) == ~scheduled

\* if (now < backoffUntil) return;
InCooldownNever(t, until) == FALSE
InCooldown(t, until) == t < until

\* if (batch.length > 0) in scheduleFlush
HasRecordsAlways(queue) == TRUE
HasRecords(queue) == Len(queue) > 0

\* if (toSend.length === 0) return;
IsEmptyOutboxNever(toSend) == FALSE
IsEmptyOutbox(toSend) == Len(toSend) = 0

\* resp.status === 429 || resp.status === 403, or the catch branch
IsFailureAlso5xx(o) ==
  o.kind = "throw" \/ o.status = 429 \/ o.status = 403 \/ o.status >= 500
IsFailure(o) == o.kind = "throw" \/ o.status = 429 \/ o.status = 403

\* backoffMs ? Math.min(backoffMs * 2, backoffMax) : backoffBase
NextBackoffNoCap(prev, base, max) == IF prev # 0 THEN prev * 2 ELSE base
NextBackoff(prev, base, max) == IF prev # 0 THEN Min(prev * 2, max) ELSE base

\* Math.floor(Math.random() * 500), Math.random() = k / RandDen
Jitter(k) == (k * JitterSpan) \div RandDen

\* batch = toSend.concat(batch)
RequeueBehind(toSend, queue) == queue \o toSend
RequeueLost(toSend, queue) == queue
Requeue(toSend, queue) == toSend \o queue

RemoveAt(s, i) == SubSeq(s, 1, i - 1) \o SubSeq(s, i + 1, Len(s))

\* flush(env) up to its first suspension point, entered with queue q:
\* the queue it leaves, the POSTs it issues (none or one) and why it returned.
Flush(q) ==
  IF InCooldown(now, backoffUntil)
    THEN [batch |-> q, posts |-> <<>>, skip |-> "cooldown"]
    ELSE IF IsEmptyOutbox(q)
      THEN [batch |-> <<>>, posts |-> <<>>, skip |-> "empty"]
      ELSE [batch |-> <<>>,
            posts |-> <<[toSend |-> q, body |-> NdjsonBody(q)]>>,
            skip |-> "none"]

NoEv ==
  [op |-> "none", flushes |-> 0, skip |-> "none", armed |-> FALSE,
   outcome |-> [kind |-> "none", status |-> 0], toSend |-> <<>>]

\* Nothing of Pipeline A is pending: empty queue, no timer, no POST, no cooldown.
Idle(q, ts, fl, until, t) == q = <<>> /\ ts = <<>> /\ fl = <<>> /\ until <= t

\* History of the current burst of appends: it starts when the pipeline is idle
\* and ends with the first sink POST issued after that.
MarkBurst ==
  burstFrom' = IF Idle(batch', timers', inflight', backoffUntil', now')
                 THEN nextId'
                 ELSE IF Len(inflight') > Len(inflight) THEN 0 ELSE burstFrom

InitA ==
  /\ conf \in Configs
  /\ batch = <<>>
  /\ flushScheduled = FALSE
  /\ backoffUntil = 0
  /\ backoffMs = 0
  /\ now = 0
  /\ timers = <<>>
  /\ inflight = <<>>
  /\ delivered = {}
  /\ nextId = 1
  /\ burstFrom = 1
  /\ ev = NoEv

\* logAndBatch(request, response, env, ctx)
LogAndBatch ==
  /\ nextId <= MaxRec
  /\ LET q1 == Append(batch, BuildLogObject(nextId))
     IN IF SizeReached(Len(q1), conf.batchMax)
          THEN LET f == Flush(q1)
               IN /\ batch' = f.batch
                  /\ inflight' = inflight \o f.posts
                  /\ ev' = [NoEv EXCEPT !.op = "append", !.flushes = 1,
                                        !.skip = f.skip]
                  /\ UNCHANGED <<flushScheduled, timers>>
          ELSE IF ShouldArm(flushScheduled)
            THEN /\ batch' = q1
                 /\ flushScheduled' = TRUE
                 /\ timers' = Append(timers, now + conf.batchMs)
                 /\ ev' = [NoEv EXCEPT !.op = "append", !.armed = TRUE]
                 /\ UNCHANGED inflight
            ELSE /\ batch' = q1
                 /\ ev' = [NoEv EXCEPT !.op = "append"]
                 /\ UNCHANGED <<flushScheduled, timers, inflight>>
  /\ nextId' = nextId + 1
  /\ UNCHANGED <<conf, backoffUntil, backoffMs, now, delivered>>
  /\ MarkBurst
  /\ UNCHANGED <<varsB, varsC>>

\* scheduleFlush(env) after await sleep(batchMs): timer i has come due.
TimerFire ==
  /\ \E i \in 1 .. Len(timers) :
       /\ timers[i] <= now
       /\ timers' = RemoveAt(timers, i)
  /\ flushScheduled' = FALSE
  /\ IF HasRecords(batch)
       THEN LET f == Flush(batch)
            IN /\ batch' = f.batch
               /\ inflight' = inflight \o f.posts
               /\ ev' = [NoEv EXCEPT !.op = "timer", !.flushes = 1,
                                     !.skip = f.skip]
       ELSE /\ ev' = [NoEv EXCEPT !.op = "timer"]
            /\ UNCHANGED <<batch, inflight>>
  /\ UNCHANGED <<conf, backoffUntil, backoffMs, now, delivered, nextId>>
  /\ MarkBurst
  /\ UNCHANGED <<varsB, varsC>>

\* flush(env) after await fetch(clarityEndpoint, req): POST i ends with o.
Complete ==
  /\ \E i \in 1 .. Len(inflight), o \in Outcomes, k \in 0 .. RandDen - 1 :
       LET toSend == inflight[i].toSend
       IN /\ inflight' = RemoveAt(inflight, i)
          /\ IF IsFailure(o)
               THEN LET ms == NextBackoff(backoffMs, conf.backoffBase,
                                          conf.backoffMax)
                    IN /\ backoffMs' = ms
                       /\ backoffUntil' = now + ms + Jitter(k)
                       /\ batch' = Requeue(toSend, batch)
                       /\ UNCHANGED delivered
               ELSE /\ backoffMs' = 0
                    /\ backoffUntil' = 0
                    /\ delivered' =
                         delivered \cup {toSend[j] : j \in 1 .. Len(toSend)}
                    /\ UNCHANGED batch
          /\ ev' = [NoEv EXCEPT !.op = "complete", !.outcome = o,
                                !.toSend = toSend]
  /\ UNCHANGED <<conf, flushScheduled, now, timers, nextId>>
  /\ MarkBurst
  /\ UNCHANGED <<varsB, varsC>>

\* Time passes.
Tick ==
  /\ now < MaxNow
  /\ now' = now + 1
  /\ ev' = [NoEv EXCEPT !.op = "tick"]
  /\ UNCHANGED <<conf, batch, flushScheduled, backoffUntil, backoffMs, timers,
                 inflight, delivered, nextId>>
  /\ MarkBurst
  /\ UNCHANGED <<varsB, varsC>>

\* flush(env) entered with an empty queue.  No call site of the program does
\* this (logAndBatch calls flush right after a push, scheduleFlush only when
\* batch.length > 0), so the case is a direct call of the function.
FlushOnEmpty ==
  /\ batch = <<>>
  /\ LET f == Flush(batch)
     IN /\ batch' = f.batch
        /\ inflight' = inflight \o f.posts
        /\ ev' = [NoEv EXCEPT !.op = "flush", !.flushes = 1, !.skip = f.skip]
  /\ UNCHANGED <<conf, flushScheduled, backoffUntil, backoffMs, now, timers,
                 delivered, nextId>>
  /\ MarkBurst
  /\ UNCHANGED <<varsB, varsC>>

\* ================================================================ Pipeline B

Max(a, b) == IF a >= b THEN a ELSE b

\* A JavaScript number: NaN or the value n (sample rates count in 1/RandDen).
NaN == [nan |-> TRUE, num |-> 0]
Num(n) == [nan |-> FALSE, num |-> n]

\* Values of Number(env.SAMPLE_RATE ?? "1.0"): below 0, 0, inside (0, 1), 1,
\* above 1, and not a number.
Rates == {Num(n) : n \in -1 .. RandDen + 1} \cup {NaN}

Paths == {"/__health", "/ingest"}

\* What one upstream call ends in: a response, a transport error, or the
\* abort of the per-attempt timeout (both reject the fetch promise).
UpStatuses == {200, 302, 404, 500, 503}
UpOutcomes ==
  [kind : {"resp"}, status : UpStatuses]
    \cup {[kind |-> "throw", status |-> 0], [kind |-> "timeout", status |-> 0]}

\* function clamp(n, min, max)
Clamp(n, min, max) == IF n.nan THEN min ELSE Max(min, Min(max, n.num))

\* if (Math.random() > rate) return 204, Math.random() = k / RandDen
SampledOut(k, r) == k > Clamp(r, 0, RandDen)

\* if (resp.status >= 500 && attempt <= RETRIES + 1)
RetryOn4xxToo(status, att) == status >= 400 /\ att <= RETRIES + 1
RetryOn5xx(status, att) == status >= 500 /\ att <= RETRIES + 1

\* if (attempt > RETRIES + 1) in the catch branch
GiveUpLate(att) == att > RETRIES + 3
GiveUp(att) == att > RETRIES + 1

InitBIdle ==
  /\ bpc = "idle"
  /\ attempt = 0
  /\ upstream = <<>>
  /\ response = 0

\* fetch(request, env) of the forwarder, up to the retry loop.
Receive ==
  /\ bpc = "idle"
  /\ \E path \in Paths, k \in 0 .. RandDen - 1 :
       IF path = "/__health"
         THEN bpc' = "done" /\ response' = 200
         ELSE IF SampledOut(k, rate)
           THEN bpc' = "done" /\ response' = 204
           ELSE bpc' = "loop" /\ UNCHANGED response
  /\ UNCHANGED <<attempt, rate, upstream>>
  /\ UNCHANGED <<varsA, varsC>>

\* One iteration of while (true): attempt++, the upstream call, its outcome o.
Attempt ==
  /\ bpc = "loop"
  /\ \E o \in UpOutcomes :
       /\ attempt' = attempt + 1
       /\ upstream' = Append(upstream, o)
       /\ IF o.kind = "resp"
            THEN IF RetryOn5xx(o.status, attempt')
                   THEN UNCHANGED <<bpc, response>>
                   ELSE bpc' = "done" /\ response' = o.status
            ELSE IF GiveUp(attempt')
                   THEN bpc' = "done" /\ response' = TimeoutStatus
                   ELSE UNCHANGED <<bpc, response>>
  /\ UNCHANGED rate
  /\ UNCHANGED <<varsA, varsC>>

\* ============================================================ Configuration

\* The numeric settings: cfg's four and the forwarder's per-attempt timeout.
CfgKeys == {"BATCH_MS", "BATCH_MAX_REQUESTS", "BACKOFF_BASE_MS", "BACKOFF_MAX_MS"}
TimeoutKey == "REQUEST_TIMEOUT_MS"
Keys == CfgKeys \cup {TimeoutKey}

\* const defaults, and the "6000" of the forwarder
defaults ==
  [BATCH_MS |-> 20000, BATCH_MAX_REQUESTS |-> 200, BACKOFF_BASE_MS |-> 2000,
   BACKOFF_MAX_MS |-> 60000, REQUEST_TIMEOUT_MS |-> 6000]

\* An override is undefined or a text, a sequence of characters.
Chars == {"0", "7", "a", " ", "-"}
Texts == UNION {[1 .. n -> Chars] : n \in 0 .. MaxLen}
Absent == [present |-> FALSE, text |-> <<>>]
Given(t) == [present |-> TRUE, text |-> t]
RawValues == {Absent} \cup {Given(t) : t \in Texts}

\* The environments explored: at most one setting is overridden.
Envs ==
  {[k \in Keys |-> IF k = key THEN v ELSE Absent] :
     key \in Keys, v \in RawValues}

DigitChars == <<"0", "1", "2", "3", "4", "5", "6", "7", "8", "9">>
IsDigit(c) == \E d \in 1 .. 10 : DigitChars[d] = c
DigitVal(c) == (CHOOSE d \in 1 .. 10 : DigitChars[d] = c) - 1

\* parseInt skips leading white space,
RECURSIVE TrimStart(_)
TrimStart(t) ==
  IF t # <<>> /\ Head(t) = " " THEN TrimStart(Tail(t)) ELSE t

\* reads the longest run of decimal digits (acc is the value read so far),
RECURSIVE DigitRun(_, _)
DigitRun(t, acc) ==
  IF t # <<>> /\ IsDigit(Head(t))
    THEN DigitRun(Tail(t), 10 * acc + DigitVal(Head(t)))
    ELSE acc

\* parseInt(v, 10): NaN unless a digit follows the optional sign.
ParseInt(t) ==
  LET u == TrimStart(t)
      neg == u # <<>> /\ Head(u) = "-"
      body == IF neg THEN Tail(u) ELSE u
  IN IF body = <<>> \/ ~IsDigit(Head(body))
       THEN NaN
       ELSE Num((IF neg THEN -1 ELSE 1) * DigitRun(body, 0))

\* Number.isFinite(n); the texts explored are too short to parse to Infinity.
IsFinite(n) == ~n.nan

\* function toNumber(v, fallback)
ToNumber(v, fallback) ==
  LET n == IF v.present THEN ParseInt(v.text) ELSE NaN
  IN IF IsFinite(n) THEN n ELSE Num(fallback)

\* Math.max(a, b): NaN when either argument is NaN.
MathMax(a, b) == IF a.nan \/ b.nan THEN NaN ELSE Num(Max(a.num, b.num))

\* Math.max(1, parseInt(env.REQUEST_TIMEOUT_MS || "6000", 10))
TimeoutMs(v) ==
  LET text == IF ~v.present \/ v.text = <<>>
                THEN <<"6", "0", "0", "0">> ELSE v.text
  IN MathMax(Num(1), ParseInt(text))

InitCIdle ==
  /\ envRaw = [k \in Keys |-> Absent]
  /\ resolved = {}

\* cfg(env): the four settings of Pipeline A.
ResolveCfg ==
  /\ \A p \in resolved : p[1] \notin CfgKeys
  /\ resolved' =
       resolved \cup {<<k, ToNumber(envRaw[k], defaults[k])>> : k \in CfgKeys}
  /\ UNCHANGED <<envRaw, varsA, varsB>>

\* const timeoutMs = ... in the forwarder's fetch.
ResolveTimeout ==
  /\ \A p \in resolved : p[1] # TimeoutKey
  /\ resolved' = resolved \cup {<<TimeoutKey, TimeoutMs(envRaw[TimeoutKey])>>}
  /\ UNCHANGED <<envRaw, varsA, varsB>>

Init == InitA /\ InitBIdle /\ rate = Num(RandDen) /\ InitCIdle

Next == LogAndBatch \/ TimerFire \/ Complete \/ Tick

\* Pipeline A under its own call sites.
Spec == Init /\ [][Next]_vars

NextFlush == LogAndBatch \/ TimerFire \/ Complete \/ Tick \/ FlushOnEmpty

\* Pipeline A, where time passes and the callback of a due timer runs (the
\* runtime keeps the isolate alive for the promise given to ctx.waitUntil).
SpecFair == Init /\ [][Next]_vars /\ WF_vars(Tick) /\ WF_vars(TimerFire)

\* Pipeline A with flush also called directly on an empty queue.
SpecFlush == Init /\ [][NextFlush]_vars

InitB ==
  /\ InitA
  /\ conf = BaseConfig
  /\ InitBIdle
  /\ rate \in Rates
  /\ InitCIdle

NextB == Receive \/ Attempt

\* Pipeline B: one inbound call.
SpecB == InitB /\ [][NextB]_vars

InitCfg ==
  /\ InitA
  /\ conf = BaseConfig
  /\ InitBIdle
  /\ rate = Num(RandDen)
  /\ envRaw \in Envs
  /\ resolved = {}

NextCfg == ResolveCfg \/ ResolveTimeout

\* The configuration resolvers of both pipelines, over the environments Envs.
SpecCfg == InitCfg /\ [][NextCfg]_vars

\* Pipeline B, where the handler runs on and every upstream call settles: the
\* awaited fetch resolves, rejects, or is aborted by the per-attempt timer.
SpecBFair == InitB /\ [][NextB]_vars /\ WF_vars(Receive) /\ WF_vars(Attempt)

\* ==================================================================== claims

\* The outcome o of a sink POST is one the code treats as a failure.
FailedAttempt(o) == o.kind = "throw" \/ o.status = 429 \/ o.status = 403

\* C1 - Single timer invariant: in every reachable state of Pipeline A at most
\* one scheduleFlush timer is armed and not yet fired.
C1_SingleTimer == Len(timers) <= 1

\* An append made while a timer was armed did not arm a second one.
C1_Witness ==
  /\ ev.op = "append" /\ ~ev.armed /\ ev.flushes = 0
  /\ Len(timers) = 1 /\ Len(batch) >= 2

\* C2 (as claimed) - flush is invoked by an append exactly when the queue length
\* crosses from below the max batch size to at or above it, and not by a further
\* append made while the length is still at or above the max.
C2_OncePerCrossing ==
  [][nextId' = nextId + 1 =>
       /\ (Len(batch) < conf.batchMax /\ Len(batch) + 1 >= conf.batchMax)
            => ev'.flushes = 1
       /\ Len(batch) >= conf.batchMax => ev'.flushes = 0]_vars

\* C2 (amended) - every append whose resulting queue length is at or above the
\* max batch size invokes flush exactly once, the crossing append and every
\* further append made while the length is still at or above the max; an
\* append whose resulting length is below the max invokes no flush.
C2_FlushPerAppendAtMax ==
  [][nextId' = nextId + 1 =>
       ev'.flushes = (IF Len(batch) + 1 >= conf.batchMax THEN 1 ELSE 0)]_vars

\* An append found the queue already at the max and invoked flush again.
C2_Witness ==
  /\ ev.op = "append" /\ ev.flushes = 1
  /\ Len(batch) > conf.batchMax

\* C3 - Capture order: in every reachable state the queue holds its records in
\* original capture order (a record captured earlier never sits behind one
\* captured later), also with two POST attempts in flight at the same time.
C3_CaptureOrder ==
  \A i, j \in 1 .. Len(batch) :
    i < j => batch[i].EdgeStartTimestamp < batch[j].EdgeStartTimestamp

\* C4 - Requeue step: when a sink POST attempt ends in failure, the queue right
\* after equals the attempt's outbox followed by the queue as it stood just
\* before; the attempt is no longer in flight.
C4_RequeueStep ==
  [][(ev'.op = "complete" /\ FailedAttempt(ev'.outcome)) =>
       /\ batch' = ev'.toSend \o batch
       /\ \E i \in 1 .. Len(inflight) :
            /\ inflight[i].toSend = ev'.toSend
            /\ inflight' = SubSeq(inflight, 1, i - 1)
                             \o SubSeq(inflight, i + 1, Len(inflight))]_vars

\* A failed attempt of two records was requeued in front of a record that was
\* captured during the attempt.
C4_Witness ==
  /\ ev.op = "complete" /\ FailedAttempt(ev.outcome)
  /\ Len(ev.toSend) = 2
  /\ Len(batch) = 3
  /\ batch[3].EdgeStartTimestamp > ev.toSend[2].EdgeStartTimestamp

\* C5 - Backoff monotonicity and cap: backoffMs is never above the configured
\* max, and a failed sink attempt never decreases it.
C5_BackoffMonotoneCapped ==
  [][/\ backoffMs' <= conf.backoffMax
     /\ (ev'.op = "complete" /\ FailedAttempt(ev'.outcome))
          => backoffMs' >= backoffMs]_vars

\* C6 - Sink outcome classification: a transport error and the statuses 429 and
\* 403 are failures (backoff advanced, backoffUntil in the future, outbox
\* requeued); every other status, other 4xx and all 5xx included, is a success
\* (backoffMs and backoffUntil both 0, outbox not put back).
C6_Classification ==
  [][ev'.op = "complete" =>
       IF FailedAttempt(ev'.outcome)
         THEN /\ backoffMs' > 0
              /\ backoffUntil' > now'
              /\ batch' = ev'.toSend \o batch
         ELSE /\ backoffMs' = 0
              /\ backoffUntil' = 0
              /\ batch' = batch]_vars

\* A POST answered with a 5xx status during a failure streak's aftermath: the
\* backoff is reset and the records captured meanwhile stay alone in the queue.
C6_Witness ==
  /\ ev.op = "complete" /\ ev.outcome.kind = "resp" /\ ev.outcome.status = 500
  /\ backoffMs = 0 /\ backoffUntil = 0
  /\ batch # <<>>
  /\ \A i \in 1 .. Len(ev.toSend) : \A j \in 1 .. Len(batch) :
       batch[j] # ev.toSend[i]

\* C7 - Cooldown skip: a flush invoked while now < backoffUntil makes no network
\* call and leaves queue, backoffMs, backoffUntil and flushScheduled as they
\* were on its entry (after logAndBatch's push, after scheduleFlush's reset of
\* flushScheduled), whatever the queue length.
C7_CooldownSkip ==
  [][(ev'.flushes = 1 /\ now < backoffUntil) =>
       /\ inflight' = inflight
       /\ backoffMs' = backoffMs
       /\ backoffUntil' = backoffUntil
       /\ ev'.op = "append" =>
            /\ batch' = Append(batch, [EdgeStartTimestamp |-> nextId])
            /\ flushScheduled' = flushScheduled
       /\ ev'.op = "timer" =>
            /\ batch' = batch
            /\ flushScheduled' = FALSE
       /\ ev'.op = "flush" =>
            /\ batch' = batch
            /\ flushScheduled' = flushScheduled]_vars

\* A size-triggered flush was skipped in cooldown with the queue above the max.
C7_Witness ==
  /\ ev.op = "append" /\ ev.flushes = 1
  /\ now < backoffUntil
  /\ Len(batch) > conf.batchMax
  /\ inflight = <<>>

\* C8 - Idempotent empty flush: a flush entered with an empty queue makes no
\* network call, does not change backoffMs or backoffUntil, and leaves the
\* queue empty.
C8_EmptyFlush ==
  [][(ev'.flushes = 1 /\ ev'.op \in {"flush", "timer"} /\ batch = <<>>) =>
       /\ inflight' = inflight
       /\ backoffMs' = backoffMs
       /\ backoffUntil' = backoffUntil
       /\ batch' = <<>>]_vars

\* flush ran on an empty queue outside cooldown, after another flush had
\* drained the queue (its POST still in flight), with backoff state set.
C8_Witness ==
  /\ ev.op = "flush" /\ ev.flushes = 1
  /\ backoffUntil <= now
  /\ backoffMs > 0
  /\ batch = <<>>
  /\ Len(inflight) = 1

C10_RetryExhaustion5xx ==
  (/\ bpc = "done"
   /\ upstream # <<>>
   /\ \A i \in 1 .. Len(upstream) :
        upstream[i].kind = "resp" /\ upstream[i].status = 500)
    => /\ Len(upstream) = RETRIES + 1
       /\ response = upstream[Len(upstream)].status

\* An upstream call that ended without a response (transport error or abort).
NoResponse(o) == o.kind = "throw" \/ o.kind = "timeout"

\* C11 - Retry exhaustion on transport failure: an inbound call never makes
\* more than RETRIES + 1 upstream calls, and when every attempt times out or
\* fails at transport level the caller receives 524 after exactly RETRIES + 1
\* upstream calls.
C11_RetryExhaustionTransport ==
  /\ Len(upstream) <= RETRIES + 1
  /\ (/\ bpc = "done"
      /\ upstream # <<>>
      /\ \A i \in 1 .. Len(upstream) : NoResponse(upstream[i]))
       => (response = 524 /\ Len(upstream) = RETRIES + 1)

\* C12 - Inbound call always completes: whatever the upstream outcomes, the
\* retry loop ends after finitely many attempts (at most RETRIES + 2), the call
\* eventually returns, and it returns exactly one response, which then stands.
C12_AlwaysCompletes ==
  /\ <>(bpc = "done")
  /\ [](attempt <= RETRIES + 2 /\ Len(upstream) = attempt)
  /\ []((bpc = "done") <=> (response # 0))
  /\ [][bpc = "done" => (bpc' = "done" /\ response' = response)]_vars

\* A call whose first attempt timed out went on and returned a response.
C12_Witness ==
  /\ bpc = "done" /\ response = 200
  /\ Len(upstream) = 3
  /\ upstream[1].kind = "timeout"
  /\ upstream[2].kind = "throw"

\* C13 - Sampling boundary: whatever the random draw, a sample rate of 0 admits
\* no inbound call (204, no upstream call), a not-a-number rate behaves as rate
\* 0, and a rate of 1 admits every call (no call is answered by the sampling
\* gate; an unforwarded call is the health check's 200).
C13_SamplingBoundary ==
  /\ ((rate.nan \/ rate.num = 0) /\ bpc # "idle")
       => (bpc = "done" /\ upstream = <<>> /\ response \in {200, 204})
  /\ (~rate.nan /\ rate.num = RandDen /\ bpc = "done" /\ upstream = <<>>)
       => response = 200

\* C15 - Status relay: an upstream response below 500 ends the call at once
\* with that status, and 524 is returned only when the final attempt ended in a
\* timeout or transport error.
C15_StatusRelay ==
  /\ \A i \in 1 .. Len(upstream) :
       (upstream[i].kind = "resp" /\ upstream[i].status < 500)
         => (i = Len(upstream) /\ bpc = "done"
               /\ response = upstream[i].status)
  /\ (bpc = "done" /\ response = 524)
       => (upstream # <<>> /\ NoResponse(upstream[Len(upstream)]))

\* After a 5xx answer the second attempt got a 404, which was relayed.
C15_Witness ==
  /\ bpc = "done" /\ response = 404
  /\ Len(upstream) = 2
  /\ upstream[1].kind = "resp" /\ upstream[1].status = 503
  /\ upstream[2].kind = "resp" /\ upstream[2].status = 404

\* C16 - Append dispatch: an append whose resulting queue length is at or above
\* the max batch size invokes flush and arms no timer, pending timer or not; an
\* append whose resulting length is below the max invokes no flush, and arms a
\* timer iff flushScheduled was false, leaving flushScheduled true.
C16_AppendDispatch ==
  [][nextId' = nextId + 1 =>
       IF Len(batch) + 1 >= conf.batchMax
         THEN /\ ev'.flushes = 1
              /\ timers' = timers
              /\ flushScheduled' = flushScheduled
         ELSE /\ ev'.flushes = 0
              /\ inflight' = inflight
              /\ flushScheduled' = TRUE
              /\ IF flushScheduled
                   THEN timers' = timers
                   ELSE /\ Len(timers') = Len(timers) + 1
                        /\ SubSeq(timers', 1, Len(timers)) = timers]_vars

\* A size-triggered flush ran while a timer was pending and left it pending.
C16_Witness ==
  /\ ev.op = "append" /\ ev.flushes = 1 /\ ev.skip = "none"
  /\ flushScheduled /\ Len(timers) = 1
  /\ Len(inflight) = 1 /\ Len(inflight[1].toSend) = conf.batchMax

\* C17 - Timer life cycle: flushScheduled is true exactly while a timer is
\* armed; it becomes true only when an append arms a timer and false only when
\* that timer fires; flush never changes it; a firing timer resets it and
\* invokes flush iff the queue is non-empty; a timer is removed only by firing,
\* and a timer due within the explored clock eventually fires.
C17_TimerLifeCycle ==
  /\ [](flushScheduled <=> Len(timers) = 1)
  /\ [][/\ (~flushScheduled /\ flushScheduled')
             => (ev'.op = "append" /\ Len(timers') = Len(timers) + 1)
        /\ (flushScheduled /\ ~flushScheduled')
             => (ev'.op = "timer" /\ Len(timers') = Len(timers) - 1)
        /\ (ev'.flushes = 1 /\ ev'.op # "timer")
             => flushScheduled' = flushScheduled
        /\ ev'.op = "complete" => flushScheduled' = flushScheduled
        /\ ev'.op = "timer"
             => /\ ~flushScheduled'
                /\ ev'.flushes = (IF batch # <<>> THEN 1 ELSE 0)
        /\ Len(timers') < Len(timers) => ev'.op = "timer"]_vars
  /\ (flushScheduled /\ timers[1] <= MaxNow) ~> ~flushScheduled

\* A timer fired on a queue that a size-triggered flush had already emptied:
\* the flag is reset and flush is not invoked.
C17_Witness ==
  /\ ev.op = "timer" /\ ev.flushes = 0
  /\ ~flushScheduled /\ timers = <<>>
  /\ batch = <<>> /\ Len(inflight) = 1

\* C18 - Backoff step: on each failed sink attempt the new backoffMs is the
\* configured base when the previous backoffMs was 0 and min(2 * previous,
\* configured max) otherwise, and the new backoffUntil is the completion time
\* plus the new backoffMs plus an integer jitter j, 0 <= j < 500; for status
\* 429/403 and for a transport error alike.
C18_BackoffStep ==
  [][(ev'.op = "complete" /\ FailedAttempt(ev'.outcome)) =>
       /\ backoffMs' = (IF backoffMs = 0
                          THEN conf.backoffBase
                          ELSE IF 2 * backoffMs <= conf.backoffMax
                                 THEN 2 * backoffMs ELSE conf.backoffMax)
       /\ \E j \in 0 .. 499 : backoffUntil' = now + backoffMs' + j]_vars

\* A transport error doubled the backoff from 1 to 2 and drew a jitter of 250.
C18_Witness ==
  /\ ev.op = "complete" /\ ev.outcome.kind = "throw"
  /\ conf.backoffBase = 1 /\ backoffMs = 2
  /\ backoffUntil = now + backoffMs + 250

\* C19 - Record conservation: every captured record is in exactly one place,
\* the queue, the outbox of one in-flight POST, or the set of records whose
\* POST was classified a success, and it is there once.
C19_RecordConservation ==
  \A n \in 1 .. nextId - 1 :
    LET r == [EdgeStartTimestamp |-> n]
    IN Cardinality({i \in 1 .. Len(batch) : batch[i] = r})
         + Cardinality({<<p, i>> \in (1 .. Len(inflight)) \X (1 .. MaxRec + 1) :
                          /\ i <= Len(inflight[p].toSend)
                          /\ inflight[p].toSend[i] = r})
         + (IF r \in delivered THEN 1 ELSE 0)
         = 1

\* Records in all three places while two POSTs overlap.
C19_Witness ==
  /\ Len(inflight) = 2
  /\ batch # <<>>
  /\ delivered # {}

\* C20 - No self-scheduled retry after requeue: a failed sink attempt requeues
\* its records, and a flush skipped in cooldown keeps them, without arming a
\* timer or issuing a POST; and from a state with a non-empty queue,
\* flushScheduled false and no POST in flight, every step that is not an append
\* leaves the queue as it is, with no timer and no POST.
C20_NoSelfRetry ==
  [][/\ (ev'.op = "complete" /\ FailedAttempt(ev'.outcome))
          => /\ batch' = ev'.toSend \o batch
             /\ timers' = timers
             /\ flushScheduled' = flushScheduled
             /\ Len(inflight') = Len(inflight) - 1
     /\ (ev'.flushes = 1 /\ now < backoffUntil)
          => /\ Len(batch') >= Len(batch)
             /\ timers' = SubSeq(timers, Len(timers) - Len(timers') + 1,
                                 Len(timers))
             /\ inflight' = inflight
     /\ (batch # <<>> /\ ~flushScheduled /\ inflight = <<>>
           /\ nextId' = nextId)
          => /\ batch' = batch
             /\ timers' = <<>>
             /\ ~flushScheduled'
             /\ inflight' = <<>>]_vars

\* The cooldown is over, no timer is armed, no POST is in flight, and the
\* requeued records are still waiting.
C20_Witness ==
  /\ ev.op = "tick"
  /\ batch # <<>> /\ ~flushScheduled /\ timers = <<>> /\ inflight = <<>>
  /\ backoffUntil > 0 /\ backoffUntil < now

\* C14 - Config fallback: every numeric setting whose override is absent or
\* does not parse as a number (parseInt finds no digit to read) resolves to its
\* documented default, and no resolved setting is NaN.
C14_ConfigFallback ==
  \A p \in resolved :
    LET v == envRaw[p[1]]
        u == IF v.present THEN v.text ELSE <<>>
        firstDigit ==
          \E i \in 1 .. Len(u) :
            /\ u[i] \in {"0", "7"}
            /\ \A j \in 1 .. i - 1 : u[j] = " " \/ (u[j] = "-" /\ j = i - 1)
    IN /\ ~p[2].nan
       /\ ~firstDigit => (p[2].num = defaults[p[1]])

====
